---- MODULE Spec2Model ----
(***************************************************************************)
(* A model of the RAG tutorial notebooks of Fabric-Conf-2024-Build-AI-Apps.*)
(*                                                                         *)
(*   SpecLoop  cosmos-demos-langchain.ipynb: the interactive query loop    *)
(*             (embed, vector search, prompt assembly, completion, cache). *)
(*   SpecChat  the Gradio chat notebook: prepare_chain, the cache-clearing *)
(*             cell, the test invocations, the Gradio cell and its handler *)
(*             user, which Gradio runs in one worker thread per request.   *)
(*   SpecRag   either of the two, chosen when the kernel starts.           *)
(*   SpecLoad  the MovieLens loading notebook: the container-creation      *)
(*             cell, generate_embeddings under its tenacity retry, and the *)
(*             coroutine insert_data.                                      *)
(*   SpecLoadFair  SpecLoad with the running cell never stalled for ever.  *)
(*   SpecIngest  the MongoDB loading notebook: the set-up cell and the     *)
(*             ingestion loop.                                             *)
(*                                                                         *)
(* Text is a sequence of one-character strings, so that str.lower(), str() *)
(* and string concatenation are computed and not assumed.  The hosted      *)
(* services (embedding endpoint, completion endpoint, vector index) are    *)
(* nondeterministic: each call returns one of a small set of answers or    *)
(* raises.  A session of the query loop runs either with varying services  *)
(* (any answer to any call) or with steady ones (the embedding is a        *)
(* function of the text and the ranking a function of the query vector);   *)
(* steady sessions are followed for two more loop bodies.                  *)
(***************************************************************************)
EXTENDS Integers, Sequences, FiniteSets, TLC

VARIABLES
    notebook,            \* which notebook this kernel runs
    \* ---- cosmos-demos-langchain.ipynb
    collection,          \* item documents of db[mongo_collection], in _id order
    cache,               \* documents of db[mongo_cache_collection], in insertion order
    pc,                  \* position of the interactive query loop cell
    user_input,          \* the loop's user_input
    user_embeddings,     \* the loop's user_embeddings
    search_results,      \* the loop's search_results
    completions_results, \* the loop's completions_results
    messages,            \* the message list of the last completion call
    stdout,              \* the texts printed by the loop, in order
    exc,                 \* the function whose exception ended the cell, or "none"
    n,                   \* number of loop bodies entered
    prompts,             \* number of input() calls made
    log,                 \* the calls of the four helper functions, in order
    cache0,              \* the cache collection as it was before the loop
    services,            \* "steady": embedding endpoint and index answer alike each time
    \* ---- the Gradio chat notebook
    movies,              \* item documents of database[cosmos_collection]
    semcache,            \* documents of database[cosmos_semcache], in insertion order
    chathistory,         \* documents of database[cosmos_chat_history], in insertion order
    hist,                \* the module-level list hist
    cell,                \* the cell the kernel runs next, "serving" while demo is up
    h,                   \* per request thread: position and locals of the handler user
    turns,               \* number of submit events so far
    \* ---- the MovieLens loading notebook
    data,                \* the list data read from the JSON file
    container,           \* the items of the data container, one per id
    running,             \* the cell the kernel runs: "none", "embed" or "insert"
    rpc,                 \* position of generate_embeddings and its retry wrapper
    rtext,               \* the argument of generate_embeddings
    attempt,             \* tenacity's attempt number of the current call
    outcomes,            \* per request of the current call: "fail" or the embedding
    result,              \* what the call returned
    ipc,                 \* position of the coroutine insert_data
    idx,                 \* index in data of the object the for loop is at
    counter,             \* insert_data's counter
    inflight,            \* indices of the upsert_item requests not yet answered
    started,             \* indices of the upsert_item requests, in the order sent
    upserted,            \* indices of the upsert_item requests, in the order applied
    printed,             \* what insert_data has printed
    runs,                \* number of runs of the insert cell
    policies,            \* the data and the cache container: existence and policies
    cpc,                 \* position of the container-creation cell
    \* ---- the MongoDB loading notebook
    mdb,                 \* the collections of mongo_client[mongo_database] on the server
    objects,             \* the objects of the JSON file in blob storage
    mpc,                 \* position of the running cell, "idle" between cells
    pos,                 \* index of the object the for loop is at
    obj,                 \* the loop's obj, a dict as a sequence of <<key, value>>
    sObject,             \* the loop's sObject
    vectorArray,         \* the loop's vectorArray
    handle,              \* whether products_collection is bound in the kernel
    setups,              \* runs of the set-up cell
    ingests,             \* runs of the ingestion cell since the last completed set-up
    iruns,               \* runs of the ingestion cell
    last,                \* the last cell run and how it ended
    oids,                \* number of the next ObjectId the driver draws
    base,                \* documents of the item collection when the ingestion began
    mprinted             \* what the ingestion cell has printed

loopVars == <<collection, cache, pc, user_input, user_embeddings, search_results,
              completions_results, messages, stdout, exc, n, prompts, log, cache0,
              services>>

chatVars == <<movies, semcache, chathistory, hist, cell, h, turns>>

loadVars == <<data, container, running, rpc, rtext, attempt, outcomes, result, ipc,
              idx, counter, inflight, started, upserted, printed, runs, policies, cpc>>

ingestVars == <<mdb, objects, mpc, pos, obj, sObject, vectorArray, handle, setups,
                ingests, iruns, last, oids, base, mprinted>>

vars == <<notebook, loopVars, chatVars, loadVars, ingestVars>>

(***************************************************************************)
(* Bounds of the model.                                                    *)
(***************************************************************************)
\* loop bodies one run of the query loop may enter
MaxIter == 2
\* cache documents left by earlier sessions
MaxPre == 4
\* item documents ingested before the loop
MaxItems == 4

(***************************************************************************)
(* Text helpers.                                                           *)
(***************************************************************************)
\* str.lower() on one character
LowerChar(c) ==
    CASE c = "E" -> "e"
      [] c = "N" -> "n"
      [] c = "D" -> "d"
      [] OTHER -> c

\* str.lower()
Lower(s) == [i \in 1..Len(s) |-> LowerChar(s[i])]

Digit(d) ==
    CASE d = 0 -> "0" [] d = 1 -> "1" [] d = 2 -> "2" [] d = 3 -> "3" [] d = 4 -> "4"
      [] d = 5 -> "5" [] d = 6 -> "6" [] d = 7 -> "7" [] d = 8 -> "8" [] d = 9 -> "9"

\* str() of a non-negative int
RECURSIVE Str(_)
Str(k) == IF k < 10 THEN <<Digit(k)>> ELSE Str(k \div 10) \o <<Digit(k % 10)>>

\* the literal the while condition compares with
END == <<"e", "n", "d">>

\* what the user may type at input("Prompt: ")
Inputs ==
    { END, <<"E", "N", "D">>, <<"E", "n", "d">>,
      <<"e", "n", "d", "s">>, <<"h", "i">> }

\* embedding vectors the endpoint may return
Vectors == {1, 2}

\* the request threads of the Gradio server
Handlers == {1, 2}

\* the locals of a handler that is not running
IdleHandler == [pc |-> "idle", msg |-> "", buf |-> <<>>, answer |-> ""]

\* the MovieLens loading notebook is not the one this kernel runs
LoadNotStarted ==
    /\ data = <<>>
    /\ container = {}
    /\ running = "none"
    /\ rpc = "idle"
    /\ rtext = ""
    /\ attempt = 0
    /\ outcomes = <<>>
    /\ result = 0
    /\ ipc = "idle"
    /\ idx = 0
    /\ counter = 0
    /\ inflight = {}
    /\ started = <<>>
    /\ upserted = <<>>
    /\ printed = <<>>
    /\ runs = 0
    /\ policies = <<>>
    /\ cpc = "none"

\* the MongoDB loading notebook is not the one this kernel runs
IngestNotStarted ==
    /\ mdb = <<>>
    /\ objects = <<>>
    /\ mpc = "none"
    /\ pos = 0
    /\ obj = <<>>
    /\ sObject = ""
    /\ vectorArray = ""
    /\ handle = FALSE
    /\ setups = 0
    /\ ingests = 0
    /\ iruns = 0
    /\ last = "none"
    /\ oids = 0
    /\ base = 0
    /\ mprinted = <<>>

\* the Gradio chat notebook is not the one this kernel runs
ChatNotStarted ==
    /\ movies = <<>>
    /\ semcache = <<>>
    /\ chathistory = <<>>
    /\ hist = <<>>
    /\ cell = "none"
    /\ h = [t \in Handlers |-> IdleHandler]
    /\ turns = 0

\* cosmos-demos-langchain.ipynb is not the one this kernel runs
LoopNotStarted ==
    /\ collection = <<>>
    /\ cache = <<>>
    /\ cache0 = <<>>
    /\ pc = "none"
    /\ user_input = <<>>
    /\ user_embeddings = 0
    /\ search_results = <<>>
    /\ completions_results = [content |-> <<>>, completion_tokens |-> 0,
                              prompt_tokens |-> 0, total_tokens |-> 0, model |-> ""]
    /\ messages = <<>>
    /\ stdout = <<>>
    /\ exc = "none"
    /\ n = 0
    /\ prompts = 0
    /\ log = <<>>
    /\ services = "none"

(***************************************************************************)
(* cosmos-demos-langchain.ipynb: documents and helper functions.           *)
(***************************************************************************)
\* the 'content' of the i-th ingested item; items 1 and 2 carry the same text
ContentOf(i) == IF i <= 2 THEN <<"a">> ELSE <<"b", Digit(i % 10)>>

\* the i-th item document, as the ingestion notebook stored it
ItemDoc(i) == [_id |-> i, content |-> ContentOf(i), contentVector |-> 1 + (i % 2)]

\* the i-th cache document left by an earlier session
PreDoc(i) ==
    [_id |-> i, prompt |-> <<"p", Digit(i % 10)>>, completion |-> <<"c">>,
     completionTokens |-> Str(i), promptTokens |-> Str(10 + i),
     totalTokens |-> Str(10 + 2 * i), model |-> "gpt", vectorContent |-> 1 + (i % 2)]

\* the orders in which the vector index may rank the documents of coll
Rankings(coll) ==
    { [i \in 1..Len(coll) |-> i], [i \in 1..Len(coll) |-> Len(coll) + 1 - i] }

Min(a, b) == IF a < b THEN a ELSE b

\* the pipeline of vector_search: the k best documents of the ranking, each
\* projected to {similarityScore, document}
vector_search(coll, ranking, query_embedding, num_results) ==
    [i \in 1..Min(num_results, Len(coll)) |->
        [similarityScore |-> 100 - i, document |-> coll[ranking[i]]]]

\* cursor.sort([("_id", -1)]): repeatedly take the document of greatest _id
RECURSIVE SortByIdDesc(_)
SortByIdDesc(docs) ==
    IF docs = {} THEN <<>>
    ELSE LET top == CHOOSE d \in docs : \A e \in docs : e._id <= d._id
         IN  <<top>> \o SortByIdDesc(docs \ {top})

\* cursor.limit(k) for k >= 0: a limit of 0 is no limit
Limit(s, k) == IF k = 0 THEN s ELSE SubSeq(s, 1, Min(k, Len(s)))

Range(s) == {s[i] : i \in DOMAIN s}

\* get_conversation_history, had it sorted by ("_id", 1)
get_conversation_historyAscending(c, completions) ==
    LET desc == SortByIdDesc(Range(c))
        sorted == Limit([i \in 1..Len(desc) |-> desc[Len(desc) + 1 - i]], completions)
    IN  [i \in 1..Len(sorted) |->
            [_id |-> sorted[i]._id, prompt |-> sorted[i].prompt,
             completion |-> sorted[i].completion]]

\* cache.find({}, {"prompt": 1, "completion": 1}).sort([("_id", -1)]).limit(completions)
get_conversation_history(c, completions) ==
    LET sorted == Limit(SortByIdDesc(Range(c)), completions)
    IN  [i \in 1..Len(sorted) |->
            [_id |-> sorted[i]._id, prompt |-> sorted[i].prompt,
             completion |-> sorted[i].completion]]

\* the system prompt of generate_completion
system_prompt == <<"S">>

\* a sequence without its repeated elements
RECURSIVE Dedup(_)
Dedup(s) ==
    IF s = <<>> THEN <<>>
    ELSE LET rest == Dedup(SubSeq(s, 1, Len(s) - 1))
         IN  IF \E i \in DOMAIN rest : rest[i] = s[Len(s)] THEN rest
             ELSE Append(rest, s[Len(s)])

\* generate_completion, had it dropped search results whose content repeats
BuildMessagesDedup(c, vector_search_results, user_prompt) ==
    LET conversation_history == get_conversation_history(c, 3)
        contents == Dedup([i \in 1..Len(vector_search_results) |->
                             vector_search_results[i].document.content])
    IN  <<[role |-> "system", content |-> system_prompt]>>
        \o [i \in 1..Len(conversation_history) |->
              [role |-> "system",
               content |-> conversation_history[i].prompt \o <<" ">>
                           \o conversation_history[i].completion]]
        \o <<[role |-> "user", content |-> user_prompt]>>
        \o [i \in 1..Len(contents) |-> [role |-> "system", content |-> contents[i]]]

\* the message list generate_completion builds
BuildMessages(c, vector_search_results, user_prompt) ==
    LET conversation_history == get_conversation_history(c, 3)
    IN  <<[role |-> "system", content |-> system_prompt]>>
        \o [i \in 1..Len(conversation_history) |->
              [role |-> "system",
               content |-> conversation_history[i].prompt \o <<" ">>
                           \o conversation_history[i].completion]]
        \o <<[role |-> "user", content |-> user_prompt]>>
        \o [i \in 1..Len(vector_search_results) |->
              [role |-> "system", content |-> vector_search_results[i].document.content]]

\* what the completion endpoint may answer to a message list (response.model_dump(),
\* with choices[0].message.content and usage.* flattened)
Responses(msgs) ==
    { [content |-> <<"x">>, completion_tokens |-> 7,
       prompt_tokens |-> 3 * Len(msgs), total_tokens |-> 7 + 3 * Len(msgs),
       model |-> "gpt"],
      [content |-> <<"y", "z">>, completion_tokens |-> 12,
       prompt_tokens |-> 3 * Len(msgs), total_tokens |-> 12 + 3 * Len(msgs),
       model |-> "gpt-4"] }

\* the _id the driver gives the next inserted document
NextId(c) == IF c = <<>> THEN 1 ELSE c[Len(c)]._id + 1

\* cache_generation, had it stored the total under 'promptTokens'
cache_generationMixedTokens(c, user_prompt, embeddings, response) ==
    Append(c, [_id |-> NextId(c),
               prompt |-> user_prompt,
               completion |-> response.content,
               completionTokens |-> Str(response.completion_tokens),
               promptTokens |-> Str(response.total_tokens),
               totalTokens |-> Str(response.total_tokens),
               model |-> response.model,
               vectorContent |-> embeddings])

\* cache_generation, had it replaced the stored document of the same prompt
cache_generationUpsert(c, user_prompt, embeddings, response) ==
    LET doc == [_id |-> NextId(c),
                prompt |-> user_prompt,
                completion |-> response.content,
                completionTokens |-> Str(response.completion_tokens),
                promptTokens |-> Str(response.prompt_tokens),
                totalTokens |-> Str(response.total_tokens),
                model |-> response.model,
                vectorContent |-> embeddings]
    IN  IF \E i \in DOMAIN c : c[i].prompt = user_prompt
        THEN [i \in DOMAIN c |-> IF c[i].prompt = user_prompt
                                 THEN [doc EXCEPT !._id = c[i]._id] ELSE c[i]]
        ELSE Append(c, doc)

\* cache_generation: the document built from the response, inserted into the cache
cache_generation(c, user_prompt, embeddings, response) ==
    Append(c, [_id |-> NextId(c),
               prompt |-> user_prompt,
               completion |-> response.content,
               completionTokens |-> Str(response.completion_tokens),
               promptTokens |-> Str(response.prompt_tokens),
               totalTokens |-> Str(response.total_tokens),
               model |-> response.model,
               vectorContent |-> embeddings])

(***************************************************************************)
(* cosmos-demos-langchain.ipynb: the interactive query loop cell.          *)
(***************************************************************************)
\* the item collection after the ingestion of k objects
ItemDocs(k) == [i \in 1..k |-> ItemDoc(i)]

\* the cache collection after k queries of earlier sessions
PreDocs(k) == [i \in 1..k |-> PreDoc(i)]

InitLoop ==
    /\ notebook = "langchain"
    /\ collection \in {ItemDocs(k) : k \in {2, MaxItems}}
    /\ cache \in {PreDocs(k) : k \in {0, 1, MaxPre}}
    /\ cache0 = cache
    /\ pc = "start"
    /\ user_input = <<>>
    /\ user_embeddings = 0
    /\ search_results = <<>>
    /\ completions_results = [content |-> <<>>, completion_tokens |-> 0,
                              prompt_tokens |-> 0, total_tokens |-> 0, model |-> ""]
    /\ messages = <<>>
    /\ stdout = <<>>
    /\ exc = "none"
    /\ n = 0
    /\ prompts = 0
    /\ log = <<>>
    /\ services \in {"varying", "steady"}
    /\ ChatNotStarted
    /\ LoadNotStarted
    /\ IngestNotStarted

\* loop bodies one run may enter: a session with steady services is followed longer
MaxBodies == IF services = "steady" THEN MaxIter + 2 ELSE MaxIter

\* what generate_embeddings may return for text: with steady services the vector is
\* a function of the text
Embeddings(text) ==
    IF services = "steady" THEN {IF text = <<"h", "i">> THEN 1 ELSE 2} ELSE Vectors

\* the orders the index may rank coll in for a query vector: with steady services
\* the order is a function of the query vector
RankingsFor(coll, query_embedding) ==
    IF services = "steady"
    THEN {[i \in 1..Len(coll) |->
             IF query_embedding = 1 THEN i ELSE Len(coll) + 1 - i]}
    ELSE Rankings(coll)

\* the loop, had it caught the exception and asked for the next input
RaiseSwallowed(fn) ==
    /\ pc' = "input"
    /\ exc' = fn

\* an exception leaves the cell: nothing in the loop catches it
Raise(fn) ==
    /\ pc' = "raised"
    /\ exc' = fn

\* the while condition, had it compared without lower()
LoopConditionCaseSensitive(text) == text # END

\* the condition of the while statement
LoopCondition(text) == Lower(text) # END

\* user_input = ""; print(banner)
LoopStart ==
    /\ notebook = "langchain"
    /\ pc = "start"
    /\ user_input' = <<>>
    /\ stdout' = Append(stdout, <<"*">>)
    /\ pc' = "input"
    /\ UNCHANGED <<chatVars, loadVars, ingestVars, notebook, services, collection, cache, user_embeddings, search_results,
                   completions_results, messages, exc, n, prompts, log, cache0>>

\* user_input = input("Prompt: "), before the loop and at the end of its body
LoopInput ==
    /\ notebook = "langchain"
    /\ pc = "input"
    /\ \E text \in Inputs : user_input' = text
    /\ prompts' = prompts + 1
    /\ pc' = "test"
    /\ UNCHANGED <<chatVars, loadVars, ingestVars, notebook, services, collection, cache, user_embeddings, search_results,
                   completions_results, messages, stdout, exc, n, log, cache0>>

\* while user_input.lower() != "end":
LoopTest ==
    /\ notebook = "langchain"
    /\ pc = "test"
    /\ IF LoopCondition(user_input)
       THEN /\ n < MaxBodies
            /\ n' = n + 1
            /\ pc' = "embed"
       ELSE /\ n' = n
            /\ pc' = "done"
    /\ UNCHANGED <<chatVars, loadVars, ingestVars, notebook, services, collection, cache, user_input, user_embeddings,
                   search_results, completions_results, messages, stdout, exc,
                   prompts, log, cache0>>

\* user_embeddings = generate_embeddings(user_input)
LoopEmbed ==
    /\ notebook = "langchain"
    /\ pc = "embed"
    /\ \/ \E v \in Embeddings(user_input) :
            /\ user_embeddings' = v
            /\ log' = Append(log, [fn |-> "generate_embeddings", n |-> n,
                                   raised |-> FALSE, arg |-> user_input, ret |-> v])
            /\ pc' = "search"
            /\ exc' = exc
       \/ /\ Raise("generate_embeddings")
          /\ log' = Append(log, [fn |-> "generate_embeddings", n |-> n, raised |-> TRUE])
          /\ UNCHANGED user_embeddings
    /\ UNCHANGED <<chatVars, loadVars, ingestVars, notebook, services, collection, cache, user_input, search_results,
                   completions_results, messages, stdout, n, prompts, cache0>>

\* the search, had its pipeline merged the score into the stored documents
LoopSearchWritesScore ==
    /\ notebook = "langchain"
    /\ pc = "search"
    /\ \E ranking \in RankingsFor(collection, user_embeddings) :
          /\ search_results' = vector_search(collection, ranking, user_embeddings, 3)
          /\ collection' = [i \in DOMAIN collection |->
                               [collection[i] EXCEPT !.contentVector = 0]]
          /\ log' = Append(log, [fn |-> "vector_search", n |-> n, raised |-> FALSE,
                                 arg |-> user_embeddings, ret |-> search_results'])
          /\ pc' = "complete"
          /\ exc' = exc
    /\ UNCHANGED <<chatVars, loadVars, ingestVars, notebook, services, cache, user_input, user_embeddings,
                   completions_results, messages, stdout, n, prompts, cache0>>

\* search_results = vector_search(user_embeddings)
LoopSearch ==
    /\ notebook = "langchain"
    /\ pc = "search"
    /\ \/ \E ranking \in RankingsFor(collection, user_embeddings) :
            /\ search_results' = vector_search(collection, ranking, user_embeddings, 3)
            /\ log' = Append(log, [fn |-> "vector_search", n |-> n, raised |-> FALSE,
                                   arg |-> user_embeddings, ret |-> search_results'])
            /\ pc' = "complete"
            /\ exc' = exc
       \/ /\ Raise("vector_search")
          /\ log' = Append(log, [fn |-> "vector_search", n |-> n, raised |-> TRUE])
          /\ UNCHANGED search_results
    /\ UNCHANGED <<chatVars, loadVars, ingestVars, notebook, services, collection, cache, user_input, user_embeddings,
                   completions_results, messages, stdout, n, prompts, cache0>>

\* the loop body, had it stored the prompt in the cache before asking for the completion
LoopCompleteCachesFirst ==
    /\ notebook = "langchain"
    /\ pc = "complete"
    /\ cache' = cache_generation(cache, user_input, user_embeddings,
                                 [completions_results EXCEPT !.content = <<>>])
    /\ LET msgs == BuildMessages(cache', search_results, user_input)
       IN  \/ \E response \in Responses(msgs) :
                 /\ messages' = msgs
                 /\ completions_results' = response
                 /\ log' = Append(log, [fn |-> "generate_completion", n |-> n,
                                        raised |-> FALSE, arg |-> user_input,
                                        ret |-> response])
                 /\ pc' = "print"
                 /\ exc' = exc
           \/ /\ Raise("generate_completion")
              /\ log' = Append(log, [fn |-> "generate_completion", n |-> n,
                                     raised |-> TRUE])
              /\ UNCHANGED <<messages, completions_results>>
    /\ UNCHANGED <<chatVars, loadVars, ingestVars, notebook, services, collection, user_input,
                   user_embeddings, search_results, stdout, n, prompts, cache0>>

\* completions_results = generate_completion(search_results, user_input)
LoopComplete ==
    /\ notebook = "langchain"
    /\ pc = "complete"
    /\ LET msgs == BuildMessages(cache, search_results, user_input)
       IN  \/ \E response \in Responses(msgs) :
                 /\ messages' = msgs
                 /\ completions_results' = response
                 /\ log' = Append(log, [fn |-> "generate_completion", n |-> n,
                                        raised |-> FALSE, arg |-> user_input,
                                        ret |-> response])
                 /\ pc' = "print"
                 /\ exc' = exc
           \/ /\ Raise("generate_completion")
              /\ log' = Append(log, [fn |-> "generate_completion", n |-> n,
                                     raised |-> TRUE])
              /\ UNCHANGED <<messages, completions_results>>
    /\ UNCHANGED <<chatVars, loadVars, ingestVars, notebook, services, collection, cache, user_input, user_embeddings,
                   search_results, stdout, n, prompts, cache0>>

\* the loop body, had it asked for the next input right after printing
LoopPrintSkipsCache ==
    /\ notebook = "langchain"
    /\ pc = "print"
    /\ stdout' = stdout \o << <<"\n">> \o user_input, completions_results.content >>
    /\ pc' = "input"
    /\ UNCHANGED <<chatVars, loadVars, ingestVars, notebook, services, collection, cache, user_input, user_embeddings,
                   search_results, completions_results, messages, exc, n, prompts,
                   log, cache0>>

\* print("\n" + user_input); print(completions_results['choices'][0]['message']['content'])
LoopPrint ==
    /\ notebook = "langchain"
    /\ pc = "print"
    /\ stdout' = stdout \o << <<"\n">> \o user_input, completions_results.content >>
    /\ pc' = "cache"
    /\ UNCHANGED <<chatVars, loadVars, ingestVars, notebook, services, collection, cache, user_input, user_embeddings,
                   search_results, completions_results, messages, exc, n, prompts,
                   log, cache0>>

\* cache_generation(user_input, user_embeddings, completions_results)
LoopCache ==
    /\ notebook = "langchain"
    /\ pc = "cache"
    /\ \/ /\ cache' = cache_generation(cache, user_input, user_embeddings,
                                       completions_results)
          /\ log' = Append(log, [fn |-> "cache_generation", n |-> n, raised |-> FALSE,
                                 arg |-> user_input, ret |-> cache'[Len(cache')]])
          /\ pc' = "input"
          /\ exc' = exc
       \/ /\ Raise("cache_generation")
          /\ log' = Append(log, [fn |-> "cache_generation", n |-> n, raised |-> TRUE])
          /\ UNCHANGED cache
    /\ UNCHANGED <<chatVars, loadVars, ingestVars, notebook, services, collection, user_input, user_embeddings, search_results,
                   completions_results, messages, stdout, n, prompts, cache0>>

NextLoop ==
    \/ LoopStart
    \/ LoopInput
    \/ LoopTest
    \/ LoopEmbed
    \/ LoopSearch
    \/ LoopComplete
    \/ LoopPrint
    \/ LoopCache

SpecLoop == InitLoop /\ [][NextLoop]_vars

(***************************************************************************)
(* Properties of the interactive query loop.                               *)
(***************************************************************************)
\* the four calls of one loop body, in the order of the cell
Steps == <<"generate_embeddings", "vector_search", "generate_completion",
           "cache_generation">>

\* the log entry of the call of fn in loop body i
Entry(fn, i) == log[CHOOSE j \in DOMAIN log : log[j].fn = fn /\ log[j].n = i]

\* the loop bodies whose cache_generation returned
Completed == {i \in 1..n : \E j \in DOMAIN log :
                 log[j].fn = "cache_generation" /\ log[j].n = i /\ ~log[j].raised}

\* C1: the calls of the loop are, in order, generate_embeddings, vector_search,
\* generate_completion, cache_generation of body 1, then the same four of body 2,
\* and so on: the j-th call ever made is step ((j-1) mod 4)+1 of body ((j-1) div 4)+1,
\* a call is made only after the one before it has returned, the cache grows by one
\* document per returned cache_generation, and whenever the loop is back at its
\* prompt every body entered so far has made each of the four calls exactly once.
C1_StepsInOrder ==
    notebook = "langchain" =>
        /\ \A j \in DOMAIN log :
              /\ log[j].n = ((j - 1) \div 4) + 1
              /\ log[j].fn = Steps[((j - 1) % 4) + 1]
              /\ j < Len(log) => ~log[j].raised
        /\ Len(cache) = Len(cache0) + Cardinality(Completed)
        /\ pc \in {"input", "test", "done"} => Len(log) = 4 * n /\ Completed = 1..n
        /\ pc = "search" => Len(log) = 4 * n - 3
        /\ pc = "complete" => Len(log) = 4 * n - 2
        /\ pc \in {"print", "cache"} => Len(log) = 4 * n - 1

\* two loop bodies have run in full
C1_Witness == pc = "input" /\ n = 2 /\ Len(log) = 8

\* C2 as stated: the loop has ended only if the last input, lower-cased, is "end",
\* and then none of the four functions was called for that input.
C2_EndsExactlyOnEnd ==
    (notebook = "langchain" /\ pc \in {"done", "raised"}) =>
        /\ Lower(user_input) = END
        /\ Len(log) = 4 * n

\* C2 as amended: the while statement is left normally exactly for an input whose
\* lower-cased text is "end", with no call made for that input and every earlier
\* input processed in full; the body runs only for other inputs; and the only other
\* way the cell ends is an exception raised by a call made for such an other input.
C2_EndsOnEndOrRaise ==
    notebook = "langchain" =>
        /\ pc = "done" =>
              /\ Lower(user_input) = END
              /\ exc = "none"
              /\ prompts = n + 1
              /\ Len(log) = 4 * n
              /\ Completed = 1..n
        /\ pc \in {"embed", "search", "complete", "print", "cache", "raised"} =>
              /\ Lower(user_input) # END
              /\ prompts = n
        /\ pc = "raised" <=> exc # "none"
        /\ (pc = "input" /\ prompts > 0) =>
              Lower(user_input) # END /\ prompts = n /\ Completed = 1..n

\* the session was ended by 'END' after one question was answered
C2_Witness == pc = "done" /\ user_input = <<"E", "N", "D">> /\ n = 1

\* C4: the cache holds the documents it held before the loop followed by one
\* document per completed loop body, in body order, and the document of body i has
\* the user input of body i as prompt, the completion text printed in body i as
\* completion, str() of the three token counts and the model of that body's
\* response, and the embedding generated for that input as vectorContent; back at
\* the prompt after n bodies without an exception there are exactly n more documents.
C4_OneDocumentPerQuery ==
    notebook = "langchain" =>
        /\ Len(cache) = Len(cache0) + Cardinality(Completed)
        /\ SubSeq(cache, 1, Len(cache0)) = cache0
        /\ (pc = "input" /\ exc = "none") => Cardinality(Completed) = n
        /\ \A i \in Completed :
              LET doc == cache[Len(cache0) + i]
                  emb == Entry("generate_embeddings", i)
                  cmp == Entry("generate_completion", i)
              IN  /\ doc.prompt = emb.arg
                  /\ stdout[2 * i] = <<"\n">> \o doc.prompt
                  /\ doc.completion = stdout[2 * i + 1]
                  /\ doc.completion = cmp.ret.content
                  /\ doc.completionTokens = Str(cmp.ret.completion_tokens)
                  /\ doc.promptTokens = Str(cmp.ret.prompt_tokens)
                  /\ doc.totalTokens = Str(cmp.ret.total_tokens)
                  /\ doc.model = cmp.ret.model
                  /\ doc.vectorContent = emb.ret

\* two queries were answered on top of a cache that was not empty
C4_Witness ==
    /\ pc = "input"
    /\ n = 2
    /\ cache0 # <<>>
    /\ Len(cache) = Len(cache0) + 2
    /\ cache[Len(cache)].prompt # cache[Len(cache) - 1].prompt

\* the number of history messages of a prompt built over the cache c
HistoryCount(c) == Min(3, Len(c))

\* C7: the message list of a completion call is the system prompt, then one message
\* per history item (the newest cache documents, at most 3, newest first, each as
\* prompt + " " + completion), then the user prompt, then one message per search
\* result with the content of its document, in that order; its length is
\* 2 + history items + search results, whatever is repeated among them.
C7_PromptIsConcatenation ==
    (notebook = "langchain" /\ pc \in {"print", "cache"}) =>
        LET nh == HistoryCount(cache)
        IN  /\ Len(messages) = 2 + nh + Len(search_results)
            /\ messages[1] = [role |-> "system", content |-> system_prompt]
            /\ \A i \in 1..nh :
                  messages[1 + i] =
                     [role |-> "system",
                      content |-> cache[Len(cache) + 1 - i].prompt \o <<" ">>
                                  \o cache[Len(cache) + 1 - i].completion]
            /\ messages[2 + nh] = [role |-> "user", content |-> user_input]
            /\ \A j \in 1..Len(search_results) :
                  messages[2 + nh + j] =
                     [role |-> "system",
                      content |-> search_results[j].document.content]

\* a prompt built from three history items and three search results, two of which
\* have the same content
C7_Witness ==
    /\ pc = "print"
    /\ Len(cache) > 3
    /\ Len(search_results) = 3
    /\ search_results[1].document.content = search_results[2].document.content
    /\ Len(messages) = 8

\* C8: once generate_embeddings, vector_search or generate_completion (or the cache
\* insert) has raised, the cell is over: no cache document exists for the loop body
\* that raised, no input was requested after the one being processed, and the
\* documents of the earlier bodies are in the cache as they were written.
C8_ErrorEndsLoop ==
    (notebook = "langchain" /\ exc # "none") =>
        /\ pc = "raised"
        /\ log[Len(log)].raised /\ log[Len(log)].fn = exc /\ log[Len(log)].n = n
        /\ Completed = 1..(n - 1)
        /\ Len(cache) = Len(cache0) + n - 1
        /\ SubSeq(cache, 1, Len(cache0)) = cache0
        /\ \A i \in 1..(n - 1) :
              cache[Len(cache0) + i] = Entry("cache_generation", i).ret
        /\ prompts = n

\* the completion call of the second query raised
C8_Witness == exc = "generate_completion" /\ n = 2 /\ pc = "raised"

\* values of the parameter completions the history is asked with
MaxCompletions == 5

\* what find() with the projection {"prompt": 1, "completion": 1} keeps of a document
Projected(d) == [_id |-> d._id, prompt |-> d.prompt, completion |-> d.completion]

\* the k most recently inserted documents of c (all of them when c has fewer),
\* newest first
Newest(c, k) == [i \in 1..Min(k, Len(c)) |-> Projected(c[Len(c) + 1 - i])]

\* C12 as stated: for every cache content and every value of completions,
\* get_conversation_history(completions) returns min(completions, number of cache
\* documents) documents, the most recently inserted ones, newest first.
C12_HistoryIsNewestFirst ==
    notebook = "langchain" =>
        \A completions \in 0..MaxCompletions :
            get_conversation_history(cache, completions) = Newest(cache, completions)

\* C12: for every cache content and every completions >= 1,
\* get_conversation_history(completions) returns min(completions, number of cache
\* documents) documents, the most recently inserted ones, newest first; with
\* completions = 0 it returns every cache document, newest first.
C12_HistoryIsNewestFirstFromOne ==
    notebook = "langchain" =>
        /\ \A completions \in 1..MaxCompletions :
              get_conversation_history(cache, completions) = Newest(cache, completions)
        /\ get_conversation_history(cache, 0) = Newest(cache, Len(cache))

\* the second loop body of a session that found more than three documents in the
\* cache has built its prompt from the history
C12_Witness ==
    /\ pc = "print"
    /\ n = 2
    /\ Len(cache) = MaxPre + 1
    /\ Len(messages) >= 5
    /\ messages[2].content = cache[Len(cache)].prompt \o <<" ">> \o cache[Len(cache)].completion

\* the text generate_completion makes of a history document
HistoryText(d) == d.prompt \o <<" ">> \o d.completion

\* C13: when loop body n has got its completion, the history part of its prompt is,
\* newest first, the documents written by bodies n-1, n-2 and n-3 (as many as have
\* run), filled up to three with the newest documents older than the loop; the cache
\* holds no document of body n yet, and in the order of calls the completion call of
\* a body always comes before its cache write.
C13_HistoryIsOfEarlierBodies ==
    notebook = "langchain" =>
        /\ pc \in {"print", "cache"} =>
              LET nh == Min(3, Len(cache0) + n - 1)
              IN  /\ Len(cache) = Len(cache0) + n - 1
                  /\ ~\E j \in DOMAIN log :
                        log[j].fn = "cache_generation" /\ log[j].n = n
                  /\ Len(messages) >= 2 + nh
                  /\ messages[2 + nh].role = "user"
                  /\ \A i \in 1..nh :
                        messages[1 + i].content =
                           IF i <= n - 1
                           THEN HistoryText(Entry("cache_generation", n - i).ret)
                           ELSE HistoryText(cache0[Len(cache0) + n - i])
        /\ \A j, k \in DOMAIN log :
              (/\ log[j].fn = "generate_completion"
               /\ log[k].fn = "cache_generation"
               /\ log[j].n = log[k].n) => j < k

\* the fourth loop body of a session has got its completion: its history shows the
\* documents of bodies 3, 2 and 1 and not the older document of the cache
C13_Witness ==
    /\ pc = "print"
    /\ n = 4
    /\ Len(cache0) = 1
    /\ messages[2].content # messages[3].content
    /\ messages[4].content = HistoryText(Entry("cache_generation", 1).ret)
    /\ messages[4].content # HistoryText(cache0[1])

(***************************************************************************)
(* The Gradio chat notebook: collections, the chain and the cells.         *)
(*                                                                         *)
(* chain.invoke is library code.  What the notebook relies on is modelled: *)
(* with a chat history the chain first asks the LLM to condense the        *)
(* question, then retrieves from the movie collection (a read) and asks    *)
(* the LLM for the answer; every LLM call goes through the semantic cache  *)
(* set by set_llm_cache, which returns the stored answer of a matching     *)
(* prompt and otherwise stores the new answer as one more document.        *)
(***************************************************************************)
\* submit events one run of the model handles
MaxTurns == 3

\* what a user may type into the textbox, and what the LLM may answer
Questions == {"q1", "q2"}

Answers == {"a1", "a2"}

\* the i-th movie document, as the loading notebook stored it
MovieDoc(i) == [id |-> i, overview |-> ContentOf(i), vector |-> 1 + (i % 2)]

\* the session id of cosmos_message_history
session_id == "test_session"

\* a stored chat message of the session
Message(type, content) == [SessionId |-> session_id, type |-> type, content |-> content]

\* s[-k:]
LastK(s, k) == SubSeq(s, Len(s) - Min(k, Len(s)) + 1, Len(s))

\* conversational_memory.buffer_as_messages: the stored messages of the session
buffer_as_messages(ch) == SelectSeq(ch, LAMBDA m : m.SessionId = session_id)

\* one LLM call behind the semantic cache: [ret, cache] for each possible outcome
LlmCall(sc, prompt, answers) ==
    IF \E i \in DOMAIN sc : sc[i].prompt = prompt
    THEN {[ret |-> sc[CHOOSE i \in DOMAIN sc : sc[i].prompt = prompt].answer,
           cache |-> sc]}
    ELSE {[ret |-> a, cache |-> Append(sc, [prompt |-> prompt, answer |-> a])] :
             a \in answers}

\* chain.invoke({"question": question, "chat_history": chat_history}):
\* [answer, cache] for each possible outcome that returns
ChainInvoke(sc, question, chat_history) ==
    LET condensed ==
            IF chat_history = <<>> THEN {[ret |-> question, cache |-> sc]}
            ELSE LlmCall(sc, [kind |-> "condense", question |-> question,
                              chat_history |-> chat_history], {question})
    IN  UNION { { [answer |-> r.ret, cache |-> r.cache] :
                    r \in LlmCall(c.cache, [kind |-> "answer", question |-> c.ret,
                                            chat_history |-> chat_history], Answers) } :
                c \in condensed }

InitChat ==
    /\ notebook = "gradio"
    /\ movies = [i \in 1..MaxItems |-> MovieDoc(i)]
    /\ semcache \in { <<>>,
                      <<[prompt |-> [kind |-> "answer", question |-> "q1",
                                     chat_history |-> <<>>], answer |-> "a1"]>> }
    /\ chathistory \in { <<>>, <<Message("human", "q2"), Message("ai", "a2")>> }
    /\ hist = <<>>
    /\ cell = "prepare_chain"
    /\ h = [t \in Handlers |-> IdleHandler]
    /\ turns = 0
    /\ LoopNotStarted
    /\ LoadNotStarted
    /\ IngestNotStarted

\* retriever, llm, chain, semantic_cache = prepare_chain()
CellPrepareChain ==
    /\ notebook = "gradio"
    /\ cell = "prepare_chain"
    /\ cell' = "clear"
    /\ UNCHANGED <<notebook, loopVars, loadVars, ingestVars, movies, semcache, chathistory, hist, h, turns>>

\* cache.drop_indexes(); database.drop_collection(cache)
CellClearCache ==
    /\ notebook = "gradio"
    /\ cell = "clear"
    /\ semcache' = <<>>
    /\ cell' = "invoke1"
    /\ UNCHANGED <<notebook, loopVars, loadVars, ingestVars, movies, chathistory, hist, h, turns>>

\* chain.invoke({'question': ..., 'chat_history': []}), the two test cells
CellInvoke ==
    /\ notebook = "gradio"
    /\ cell \in {"invoke1", "invoke2"}
    /\ \/ \E out \in ChainInvoke(semcache, IF cell = "invoke1" THEN "q1" ELSE "q2", <<>>) :
            semcache' = out.cache
       \/ UNCHANGED semcache
    /\ cell' = IF cell = "invoke1" THEN "invoke2" ELSE "gradio"
    /\ UNCHANGED <<notebook, loopVars, loadVars, ingestVars, movies, chathistory, hist, h, turns>>

\* the Gradio cell: prepare_chain(), drop the cache and the chat history, hist = [],
\* define demo and its handler
CellGradio ==
    /\ notebook = "gradio"
    /\ cell = "gradio"
    /\ semcache' = <<>>
    /\ chathistory' = <<>>
    /\ hist' = <<>>
    /\ cell' = "launch"
    /\ UNCHANGED <<notebook, loopVars, loadVars, ingestVars, movies, h, turns>>

\* demo.launch(debug=True): the server is up until the cell is interrupted
CellLaunch ==
    /\ notebook = "gradio"
    /\ cell = "launch"
    /\ cell' = "serving"
    /\ UNCHANGED <<notebook, loopVars, loadVars, ingestVars, movies, semcache, chathistory, hist, h, turns>>

\* the launch cell is interrupted and demo.close() run; the Gradio cell may be run again
CellClose ==
    /\ notebook = "gradio"
    /\ cell = "serving"
    /\ \A t \in Handlers : h[t].pc = "idle"
    /\ cell' = "gradio"
    /\ UNCHANGED <<notebook, loopVars, loadVars, ingestVars, movies, semcache, chathistory, hist, h, turns>>

(***************************************************************************)
(* The handler user(user_message, chat_history), one run per submit event. *)
(* msg.submit(..., queue=False) makes Gradio call it in a worker thread of *)
(* the server for every request, so runs of different requests interleave  *)
(* between their statements.                                               *)
(***************************************************************************)
\* a submit event reaches the server and thread t starts the handler
Submit(t) ==
    /\ notebook = "gradio"
    /\ cell = "serving"
    /\ h[t].pc = "idle"
    /\ turns < MaxTurns
    /\ turns' = turns + 1
    /\ \E m \in Questions :
          h' = [h EXCEPT ![t] = [pc |-> "read", msg |-> m, buf |-> <<>>, answer |-> ""]]
    /\ UNCHANGED <<notebook, loopVars, loadVars, ingestVars, movies, semcache, chathistory, hist, cell>>

\* conversational_memory.buffer_as_messages[-6:], the argument of invoke
HandlerRead(t) ==
    /\ notebook = "gradio"
    /\ h[t].pc = "read"
    /\ h' = [h EXCEPT ![t].buf = LastK(buffer_as_messages(chathistory), 6),
                      ![t].pc = "invoke"]
    /\ UNCHANGED <<notebook, loopVars, loadVars, ingestVars, movies, semcache, chathistory, hist, cell, turns>>

\* a handler that stores the user message before it calls the chain
HandlerInvokeRecordsQuestion(t) ==
    /\ notebook = "gradio"
    /\ h[t].pc = "invoke"
    /\ \/ \E out \in ChainInvoke(semcache, h[t].msg, h[t].buf) :
            /\ semcache' = out.cache
            /\ h' = [h EXCEPT ![t].answer = out.answer, ![t].pc = "append"]
            /\ UNCHANGED chathistory
       \/ /\ h' = [h EXCEPT ![t] = IdleHandler]
          /\ chathistory' = Append(chathistory, Message("human", h[t].msg))
          /\ UNCHANGED semcache
    /\ UNCHANGED <<notebook, loopVars, loadVars, ingestVars, movies, hist, cell, turns>>

\* response = chatbot_chain.invoke(...); an exception of invoke ends the handler
HandlerInvoke(t) ==
    /\ notebook = "gradio"
    /\ h[t].pc = "invoke"
    /\ \/ \E out \in ChainInvoke(semcache, h[t].msg, h[t].buf) :
            /\ semcache' = out.cache
            /\ h' = [h EXCEPT ![t].answer = out.answer, ![t].pc = "append"]
       \/ /\ h' = [h EXCEPT ![t] = IdleHandler]
          /\ UNCHANGED semcache
    /\ UNCHANGED <<notebook, loopVars, loadVars, ingestVars, movies, chathistory, hist, cell, turns>>

\* hist.append(["User: "+user_message, "Chatbot: "+response['answer']])
HandlerAppend(t) ==
    /\ notebook = "gradio"
    /\ h[t].pc = "append"
    /\ hist' = Append(hist, <<"User: " \o h[t].msg, "Chatbot: " \o h[t].answer>>)
    /\ h' = [h EXCEPT ![t].pc = "add_user"]
    /\ UNCHANGED <<notebook, loopVars, loadVars, ingestVars, movies, semcache, chathistory, cell, turns>>

\* cosmos_message_history.add_user_message(user_message)
HandlerAddUser(t) ==
    /\ notebook = "gradio"
    /\ h[t].pc = "add_user"
    /\ chathistory' = Append(chathistory, Message("human", h[t].msg))
    /\ h' = [h EXCEPT ![t].pc = "add_ai"]
    /\ UNCHANGED <<notebook, loopVars, loadVars, ingestVars, movies, semcache, hist, cell, turns>>

\* cosmos_message_history.add_ai_message(response['answer']); return gr.update(...), hist
HandlerAddAi(t) ==
    /\ notebook = "gradio"
    /\ h[t].pc = "add_ai"
    /\ chathistory' = Append(chathistory, Message("ai", h[t].answer))
    /\ h' = [h EXCEPT ![t] = IdleHandler]
    /\ UNCHANGED <<notebook, loopVars, loadVars, ingestVars, movies, semcache, hist, cell, turns>>

\* one step of the handler user in thread t
user(t) ==
    \/ HandlerRead(t)
    \/ HandlerInvoke(t)
    \/ HandlerAppend(t)
    \/ HandlerAddUser(t)
    \/ HandlerAddAi(t)

NextChat ==
    \/ CellPrepareChain
    \/ CellClearCache
    \/ CellInvoke
    \/ CellGradio
    \/ CellLaunch
    \/ CellClose
    \/ \E t \in Handlers : Submit(t)
    \/ \E t \in Handlers : user(t)

SpecChat == InitChat /\ [][NextChat]_vars

InitRag == InitLoop \/ InitChat

NextRag == NextLoop \/ NextChat

SpecRag == InitRag /\ [][NextRag]_vars

(***************************************************************************)
(* Properties of the collections.                                          *)
(***************************************************************************)
\* b is a, possibly followed by more documents
IsPrefix(a, b) == Len(a) <= Len(b) /\ SubSeq(b, 1, Len(a)) = a

\* C3 as stated: no step of either notebook removes or changes a cache document:
\* the cache collection after a step is the one before it, possibly with more
\* documents at its end.
C3_CacheOnlyGrows ==
    [][IsPrefix(cache, cache') /\ IsPrefix(semcache, semcache')]_vars

\* C3 as amended: query iterations and chain invocations only add cache documents
\* and never change one; the only steps that remove documents are the cache-clearing
\* cell and the Gradio cell, which drop the whole collection.
C3_CacheGrowsUntilDropped ==
    [][/\ IsPrefix(cache, cache')
       /\ \/ IsPrefix(semcache, semcache')
          \/ cell \in {"clear", "gradio"} /\ semcache' = <<>>]_vars

\* the chat has answered questions since the Gradio cell dropped the cache, and the
\* cache holds the documents of these invocations
C3_Witness ==
    /\ cell = "serving"
    /\ turns >= 2
    /\ Len(semcache) >= 3
    /\ \A t \in Handlers : h[t].pc = "idle"

\* C5: no step of the query loop (vector_search, get_conversation_history,
\* generate_completion, cache_generation) and no step of the chat notebook
\* (chain.invoke, the handler user) changes the item collection: its documents
\* after the step are its documents before the step.
C5_ItemsNeverMutated ==
    [][collection' = collection /\ movies' = movies]_vars

\* a query loop has searched the ingested items twice and ended
C5_Witness ==
    /\ pc = "done"
    /\ n = 2
    /\ collection = ItemDocs(MaxItems)
    /\ Len(search_results) = 3

(***************************************************************************)
(* Properties of the chat handler.                                         *)
(***************************************************************************)
\* no handler is running
Quiescent == \A t \in Handlers : h[t].pc = "idle"

\* C6: whenever no handler is running, the stored history of the session is a
\* sequence of pairs: a human message at every odd position and an ai message right
\* after it, so no human message is without its answer and no two messages of the
\* same type are adjacent.
C6_HistoryIsPairs ==
    (notebook = "gradio" /\ Quiescent) =>
        LET ms == buffer_as_messages(chathistory)
        IN  /\ Len(ms) % 2 = 0
            /\ \A i \in DOMAIN ms :
                  ms[i].type = IF i % 2 = 1 THEN "human" ELSE "ai"

\* a run of user in thread t that has read the stored history and has not returned
InTurn(t) == h[t].pc \in {"invoke", "append", "add_user", "add_ai"}

\* C11: the runs of the handler user do not interleave: at any time at most one run
\* is between its read of the stored history and its return, so hist, the stored
\* history and the semantic cache have a single writer.
C11_SingleWriter ==
    notebook = "gradio" => Cardinality({t \in Handlers : InTurn(t)}) <= 1

\* C14: the chat_history a run of user passes to the chain is made of completed
\* turns only: at most 6 messages, a human message at every odd position and its
\* answer right after it, so at most 3 turns and no question without its answer.
C14_ContextIsCompletedTurns ==
    notebook = "gradio" =>
        \A t \in Handlers :
            InTurn(t) =>
                /\ Len(h[t].buf) <= 6
                /\ Len(h[t].buf) % 2 = 0
                /\ \A i \in DOMAIN h[t].buf :
                      h[t].buf[i].type = IF i % 2 = 1 THEN "human" ELSE "ai"

\* C15: a run of user that has not got an answer from the chain writes nothing: none
\* of its steps up to and including the raise of chatbot_chain.invoke changes hist or
\* the stored history.
C15_FailedTurnLeavesNoTrace ==
    [][ \A t \in Handlers :
          (h'[t] # h[t] /\ h[t].pc \in {"idle", "read", "invoke"}) =>
              /\ hist' = hist
              /\ chathistory' = chathistory ]_vars

\* the only turn submitted since the Gradio cell has raised in invoke
C15_Witness ==
    /\ notebook = "gradio"
    /\ cell = "serving"
    /\ Quiescent
    /\ turns = 1
    /\ hist = <<>>
    /\ chathistory = <<>>

\* C20: whenever the server is up and no run of user is in progress, the stored
\* history holds 2 * Len(hist) messages and the i-th entry of hist shows the user
\* message and the answer of the i-th stored pair.
C20_HistMatchesStoredHistory ==
    (notebook = "gradio" /\ cell = "serving" /\ Quiescent) =>
        LET ms == buffer_as_messages(chathistory)
        IN  /\ Len(ms) = 2 * Len(hist)
            /\ \A i \in DOMAIN hist :
                  hist[i] = <<"User: " \o ms[2 * i - 1].content,
                              "Chatbot: " \o ms[2 * i].content>>

(***************************************************************************)
(* The MovieLens loading notebook: generate_embeddings with                *)
(* @retry(wait=wait_random_exponential(min=1, max=10),                     *)
(*        stop=stop_after_attempt(20)), and the coroutine insert_data.     *)
(* The kernel runs one cell at a time.                                     *)
(***************************************************************************)
\* objects in the data file
MaxData == 3
\* runs of the insert cell
MaxRuns == 2

\* stop_after_attempt(20)
MaxAttempts == 20

\* the progress line is printed every 100 upserts
ProgressEvery == 100

\* texts generate_embeddings may be called with
Texts == {"t1", "t2"}

\* the i-th object of the data file
Movie(i) == [id |-> Str(i), original_title |-> <<"m", Digit(i % 10)>>, vector |-> 1 + (i % 2)]

\* an item an earlier load left in the container under the id of the first object
StaleMovie == [id |-> Str(1), original_title |-> <<"o", "l", "d">>, vector |-> 1]

\* "/" + cosmos_vector_property
VectorPath == "/vector"

\* a container the account does not have
NoContainer == [exists |-> FALSE, vectorEmbeddings |-> {}, vectorIndexes |-> {}]

\* vector_embedding_policy: the paths of its vectorEmbeddings
vector_embedding_policy == {VectorPath}

\* indexing_policy: the paths of its vectorIndexes
indexing_policy == [given |-> TRUE, vectorIndexes |-> {VectorPath}]

\* the default of the parameter indexing_policy
NoPolicy == [given |-> FALSE, vectorIndexes |-> {}]

\* what the service makes of the indexing_policy argument: without one the
\* container gets the default policy, which has no vector index
IndexesOf(policy) == IF policy.given THEN policy.vectorIndexes ELSE {}

\* db.create_container_if_not_exists(id, partition_key, indexing_policy,
\* vector_embedding_policy, offer_throughput): an existing container is returned as
\* it is
create_container_if_not_exists(existing, indexing, embedding) ==
    IF existing.exists THEN existing
    ELSE [exists |-> TRUE, vectorEmbeddings |-> embedding,
          vectorIndexes |-> IndexesOf(indexing)]

\* the account before the notebook: no container, or the containers and an item of
\* an earlier run of this notebook
InitLoad ==
    /\ notebook = "load"
    /\ data = [i \in 1..MaxData |-> Movie(i)]
    /\ \/ /\ container = {}
          /\ policies = [c \in {"data", "cache"} |-> NoContainer]
       \/ /\ container = {StaleMovie}
          /\ policies = [c \in {"data", "cache"} |->
                           create_container_if_not_exists(
                               NoContainer,
                               IF c = "data" THEN NoPolicy ELSE indexing_policy,
                               vector_embedding_policy)]
    /\ cpc = "todo"
    /\ running = "none"
    /\ rpc = "idle"
    /\ rtext = ""
    /\ attempt = 0
    /\ outcomes = <<>>
    /\ result = 0
    /\ ipc = "idle"
    /\ idx = 0
    /\ counter = 0
    /\ inflight = {}
    /\ started = <<>>
    /\ upserted = <<>>
    /\ printed = <<>>
    /\ runs = 0
    /\ LoopNotStarted
    /\ ChatNotStarted
    /\ IngestNotStarted

\* stop_after_attempt(20): no retry once the attempt number has reached 20
StopAfterAttemptLate(a) == a > MaxAttempts

StopAfterAttempt(a) == a >= MaxAttempts

\* container = await db.create_container_if_not_exists(id=cosmos_collection, ...,
\* vector_embedding_policy=vector_embedding_policy, offer_throughput=1000)
CellCreateData ==
    /\ notebook = "load"
    /\ running = "none"
    /\ cpc = "todo"
    /\ policies' = [policies EXCEPT !["data"] =
                       create_container_if_not_exists(policies["data"], NoPolicy,
                                                      vector_embedding_policy)]
    /\ cpc' = "cache"
    /\ UNCHANGED <<notebook, loopVars, chatVars, ingestVars, data, container, running, rpc, rtext,
                   attempt, outcomes, result, ipc, idx, counter, inflight, started,
                   upserted, printed, runs>>

\* cache_container = await db.create_container_if_not_exists(id=cosmos_cache, ...,
\* indexing_policy=indexing_policy, vector_embedding_policy=vector_embedding_policy,
\* offer_throughput=1000); a CosmosHttpResponseError is raised again and ends the cell
CellCreateCache ==
    /\ notebook = "load"
    /\ running = "none"
    /\ cpc = "cache"
    /\ \/ /\ policies' = [policies EXCEPT !["cache"] =
                             create_container_if_not_exists(policies["cache"],
                                                            indexing_policy,
                                                            vector_embedding_policy)]
          /\ cpc' = "done"
       \/ /\ cpc' = "todo"
          /\ UNCHANGED policies
    /\ UNCHANGED <<notebook, loopVars, chatVars, ingestVars, data, container, running, rpc, rtext,
                   attempt, outcomes, result, ipc, idx, counter, inflight, started,
                   upserted, printed, runs>>

\* a cell calls generate_embeddings(text): the wrapper makes the first attempt
CellEmbed ==
    /\ notebook = "load"
    /\ running = "none"
    /\ running' = "embed"
    /\ \E t \in Texts : rtext' = t
    /\ attempt' = 1
    /\ outcomes' = <<>>
    /\ result' = 0
    /\ rpc' = "attempt"
    /\ UNCHANGED <<notebook, loopVars, chatVars, ingestVars, policies, cpc, data, container, ipc, idx, counter,
                   inflight, started, upserted, printed, runs>>

\* one run of the function body: the request returns an embedding, which the call
\* returns, or raises, and tenacity stops (RetryError) or goes to sleep
EmbedAttempt ==
    /\ notebook = "load"
    /\ rpc = "attempt"
    /\ \/ \E v \in Vectors :
            /\ outcomes' = Append(outcomes, [ok |-> TRUE, embedding |-> v])
            /\ result' = v
            /\ rpc' = "returned"
            /\ running' = "none"
       \/ /\ outcomes' = Append(outcomes, [ok |-> FALSE, embedding |-> 0])
          /\ result' = result
          /\ IF StopAfterAttempt(attempt)
             THEN rpc' = "raised" /\ running' = "none"
             ELSE rpc' = "wait" /\ running' = running
    /\ UNCHANGED <<notebook, loopVars, chatVars, ingestVars, policies, cpc, data, container, rtext, attempt, ipc,
                   idx, counter, inflight, started, upserted, printed, runs>>

\* the sleep of wait_random_exponential(min=1, max=10) is over: next attempt
EmbedWait ==
    /\ notebook = "load"
    /\ rpc = "wait"
    /\ attempt' = attempt + 1
    /\ rpc' = "attempt"
    /\ UNCHANGED <<notebook, loopVars, chatVars, ingestVars, policies, cpc, data, container, running, rtext,
                   outcomes, result, ipc, idx, counter, inflight, started, upserted,
                   printed, runs>>

\* upsert_item, had the service added the item next to the one of the same id
UpsertAdds(cont, object) == cont \cup {object}

\* container.upsert_item(body=object) as the service applies it: the item of the
\* same id is replaced
Upsert(cont, object) == {x \in cont : x.id # object.id} \cup {object}

\* await insert_data(): counter = 0; await cosmos_client.__aenter__()
CellInsert ==
    /\ notebook = "load"
    /\ running = "none"
    /\ cpc \in {"cache", "done"}
    /\ runs < MaxRuns
    /\ runs' = runs + 1
    /\ running' = "insert"
    /\ counter' = 0
    /\ idx' = 1
    /\ started' = <<>>
    /\ upserted' = <<>>
    /\ printed' = <<>>
    /\ ipc' = "loop"
    /\ UNCHANGED <<notebook, loopVars, chatVars, ingestVars, policies, cpc, data, container, rpc, rtext, attempt,
                   outcomes, result, inflight>>

\* the loop, had it sent the request as a task without awaiting it
InsertSendNoAwait ==
    /\ notebook = "load"
    /\ ipc = "loop"
    /\ idx <= Len(data)
    /\ inflight' = inflight \cup {idx}
    /\ started' = Append(started, idx)
    /\ idx' = idx + 1
    /\ counter' = counter + 1
    /\ UNCHANGED <<notebook, loopVars, chatVars, ingestVars, policies, cpc, data, container, running, rpc, rtext,
                   attempt, outcomes, result, ipc, upserted, printed, runs>>

\* for object in data: await container.upsert_item(body=object), the request is sent
\* and the coroutine is suspended
InsertSend ==
    /\ notebook = "load"
    /\ ipc = "loop"
    /\ idx <= Len(data)
    /\ inflight' = inflight \cup {idx}
    /\ started' = Append(started, idx)
    /\ ipc' = "await"
    /\ UNCHANGED <<notebook, loopVars, chatVars, ingestVars, policies, cpc, data, container, running, rpc, rtext,
                   attempt, outcomes, result, idx, counter, upserted, printed, runs>>

\* a request is answered: the item is stored and the coroutine awaiting it goes on
\* (counter += 1, the progress line every 100), or the request fails and the
\* exception leaves insert_data
InsertAnswer ==
    /\ notebook = "load"
    /\ running = "insert"
    /\ \E j \in inflight :
          \/ /\ container' = Upsert(container, data[j])
             /\ upserted' = Append(upserted, j)
             /\ inflight' = inflight \ {j}
             /\ IF ipc = "await" /\ j = idx
                THEN /\ counter' = counter + 1
                     /\ printed' = IF counter' % ProgressEvery = 0
                                   THEN Append(printed, "Inserted documents")
                                   ELSE printed
                     /\ idx' = idx + 1
                     /\ ipc' = "loop"
                ELSE UNCHANGED <<counter, printed, idx, ipc>>
             /\ running' = running
          \/ /\ ipc = "await" /\ j = idx
             /\ inflight' = inflight \ {j}
             /\ ipc' = "raised"
             /\ running' = "none"
             /\ UNCHANGED <<container, upserted, counter, printed, idx>>
    /\ UNCHANGED <<notebook, loopVars, chatVars, ingestVars, policies, cpc, data, rpc, rtext, attempt, outcomes,
                   result, started, runs>>

\* the for loop is over: print("Upsert completed!")
InsertDone ==
    /\ notebook = "load"
    /\ ipc = "loop"
    /\ idx > Len(data)
    /\ printed' = Append(printed, "Upsert completed!")
    /\ ipc' = "done"
    /\ running' = "none"
    /\ UNCHANGED <<notebook, loopVars, chatVars, ingestVars, policies, cpc, data, container, rpc, rtext, attempt,
                   outcomes, result, idx, counter, inflight, started, upserted, runs>>

\* the coroutine insert_data
insert_data ==
    \/ InsertSend
    \/ InsertAnswer
    \/ InsertDone

\* generate_embeddings under its retry decorator
generate_embeddings ==
    \/ EmbedAttempt
    \/ EmbedWait

NextLoad ==
    \/ CellCreateData
    \/ CellCreateCache
    \/ CellEmbed
    \/ CellInsert
    \/ generate_embeddings
    \/ insert_data

SpecLoad == InitLoad /\ [][NextLoad]_vars

\* a running cell is not stalled for ever: a sleep ends, a request is answered
SpecLoadFair ==
    /\ SpecLoad
    /\ WF_vars(generate_embeddings)
    /\ WF_vars(insert_data)

(***************************************************************************)
(* The MongoDB loading notebook: the set-up cell with                      *)
(* create_collection_and_vector_index, and the ingestion loop.  A Python   *)
(* dict is a sequence of <<key, value>> pairs in insertion order, texts    *)
(* are strings, and the embedding of a text is taken to be a function of   *)
(* the text.  The kernel runs one cell at a time.                          *)
(***************************************************************************)
\* objects in the JSON file
MaxObjects == 3
\* runs of the set-up cell
MaxSetups == 2
\* runs of the ingestion cell
MaxIngests == 3

\* mongo_products_collection, mongo_cache_collection, and a collection that is not
\* of this notebook
CollNames == {"products", "cache", "other"}

\* a collection the database does not have
NoCollection == [exists |-> FALSE, indexes |-> {}, docs |-> <<>>]

\* the index of the createIndexes command
VectorSearchIndex ==
    [name |-> "VectorSearchIndex", key |-> "contentVector", kind |-> "vector-hnsw"]

\* the i-th ObjectId the driver draws
ObjectId(i) == "oid" \o Digit(i \div 10) \o Digit(i % 10)

\* the i-th object of the JSON file, as ijson yields it
Obj(i) == << <<"id", Digit(i)>>, <<"title", "t" \o Digit(i)>>,
             <<"content", "c" \o Digit(i)>> >>

\* a document an earlier run left in the item collection
StaleDoc(i) == Obj(i) \o << <<"contentVector", "old">>, <<"_id", ObjectId(i)>> >>

\* mongo_database in mongo_client.list_database_names(): a database exists when it
\* has a collection
list_database_names(db) == \E c \in CollNames : db[c].exists

\* the set-up cell, had it left an existing database as it is
drop_databaseKeeps(db) == db

\* mongo_client.drop_database(mongo_database)
drop_database(db) == [c \in CollNames |-> NoCollection]

\* create_collection_and_vector_index(database, collection_name): createIndexes
\* creates the collection when it is missing and adds the index
create_collection_and_vector_index(db, collection_name) ==
    [db EXCEPT ![collection_name] =
        [exists |-> TRUE, indexes |-> @.indexes \cup {VectorSearchIndex},
         docs |-> @.docs]]

\* d[key] = value on a dict
DictSet(d, key, value) ==
    IF \E i \in DOMAIN d : d[i][1] = key
    THEN [i \in DOMAIN d |-> IF d[i][1] = key THEN <<key, value>> ELSE d[i]]
    ELSE Append(d, <<key, value>>)

\* the members of a JSON object, joined by ", "
RECURSIVE Members(_)
Members(d) ==
    IF d = <<>> THEN ""
    ELSE d[1][1] \o ": " \o d[1][2]
         \o (IF Len(d) > 1 THEN ", " ELSE "") \o Members(Tail(d))

\* json.dumps(obj)
Dumps(d) == "{" \o Members(d) \o "}"

\* generate_embeddings(text) when the request succeeds
Embedding(text) == "E(" \o text \o ")"

\* collection.insert_one(doc): the driver adds the _id, the server stores the document
insert_one(db, collection_name, doc, oid) ==
    [db EXCEPT ![collection_name] =
        [exists |-> TRUE, indexes |-> @.indexes,
         docs |-> Append(@.docs, DictSet(doc, "_id", ObjectId(oid)))]]

\* the server before the notebook: no database; the database of an earlier run;
\* or a database with an item collection without index and a foreign collection
InitIngest ==
    /\ notebook = "ingest"
    /\ objects \in {[i \in 1..k |-> Obj(i)] : k \in {1, MaxObjects}}
    /\ \/ /\ mdb = [c \in CollNames |-> NoCollection]
          /\ oids = 1
       \/ /\ mdb = [c \in CollNames |->
                      CASE c = "products" ->
                             [exists |-> TRUE, indexes |-> {VectorSearchIndex},
                              docs |-> <<StaleDoc(1), StaleDoc(2)>>]
                        [] c = "cache" ->
                             [exists |-> TRUE, indexes |-> {VectorSearchIndex},
                              docs |-> << << <<"prompt", "p">>, <<"_id", ObjectId(3)>> >> >>]
                        [] OTHER -> NoCollection]
          /\ oids = 4
       \/ /\ mdb = [c \in CollNames |->
                      CASE c = "products" ->
                             [exists |-> TRUE, indexes |-> {}, docs |-> <<StaleDoc(1)>>]
                        [] c = "other" ->
                             [exists |-> TRUE, indexes |-> {},
                              docs |-> << << <<"x", "y">>, <<"_id", ObjectId(2)>> >> >>]
                        [] OTHER -> NoCollection]
          /\ oids = 3
    /\ mpc = "idle"
    /\ pos = 0
    /\ obj = <<>>
    /\ sObject = ""
    /\ vectorArray = ""
    /\ handle = FALSE
    /\ setups = 0
    /\ ingests = 0
    /\ iruns = 0
    /\ last = "none"
    /\ base = 0
    /\ mprinted = <<>>
    /\ LoopNotStarted
    /\ ChatNotStarted
    /\ LoadNotStarted

\* if mongo_database in mongo_client.list_database_names():
\*     mongo_client.drop_database(mongo_database)
\* db = mongo_client[mongo_database]
CellSetup ==
    /\ notebook = "ingest"
    /\ mpc = "idle"
    /\ setups < MaxSetups
    /\ setups' = setups + 1
    /\ mdb' = IF list_database_names(mdb) THEN drop_database(mdb) ELSE mdb
    /\ last' = "setup_running"
    /\ mpc' = "setup_products"
    /\ UNCHANGED <<notebook, loopVars, chatVars, loadVars, objects, pos, obj, sObject,
                   vectorArray, handle, ingests, iruns, oids, base, mprinted>>

\* products_collection = create_collection_and_vector_index(db, mongo_products_collection);
\* an exception of database.command ends the cell
SetupProducts ==
    /\ notebook = "ingest"
    /\ mpc = "setup_products"
    /\ \/ /\ mdb' = create_collection_and_vector_index(mdb, "products")
          /\ handle' = TRUE
          /\ mpc' = "setup_cache"
          /\ last' = last
       \/ /\ mpc' = "idle"
          /\ last' = "setup_raised"
          /\ UNCHANGED <<mdb, handle>>
    /\ UNCHANGED <<notebook, loopVars, chatVars, loadVars, objects, pos, obj, sObject,
                   vectorArray, setups, ingests, iruns, oids, base, mprinted>>

\* cache_collection = create_collection_and_vector_index(db, mongo_cache_collection)
SetupCache ==
    /\ notebook = "ingest"
    /\ mpc = "setup_cache"
    /\ \/ /\ mdb' = create_collection_and_vector_index(mdb, "cache")
          /\ ingests' = 0
          /\ last' = "setup"
       \/ /\ last' = "setup_raised"
          /\ UNCHANGED <<mdb, ingests>>
    /\ mpc' = "idle"
    /\ UNCHANGED <<notebook, loopVars, chatVars, loadVars, objects, pos, obj, sObject,
                   vectorArray, handle, setups, iruns, oids, base, mprinted>>

\* stream = blob_client.download_blob().readall(); objects = ijson.items(stream, 'item')
CellIngest ==
    /\ notebook = "ingest"
    /\ mpc = "idle"
    /\ handle
    /\ iruns < MaxIngests
    /\ iruns' = iruns + 1
    /\ ingests' = ingests + 1
    /\ pos' = 1
    /\ base' = Len(mdb["products"].docs)
    /\ mprinted' = <<>>
    /\ last' = "ingest_running"
    /\ mpc' = "next"
    /\ UNCHANGED <<notebook, loopVars, chatVars, loadVars, mdb, objects, obj, sObject,
                   vectorArray, handle, setups, oids>>

\* for obj in objects: the next object, or the end of the loop and
\* print("Data inserted into collection: ...")
IngestNext ==
    /\ notebook = "ingest"
    /\ mpc = "next"
    /\ IF pos <= Len(objects)
       THEN /\ obj' = objects[pos]
            /\ mpc' = "embed"
            /\ UNCHANGED <<mprinted, last>>
       ELSE /\ mprinted' = Append(mprinted, "Data inserted into collection")
            /\ mpc' = "idle"
            /\ last' = "ingest"
            /\ obj' = obj
    /\ UNCHANGED <<notebook, loopVars, chatVars, loadVars, mdb, objects, pos, sObject,
                   vectorArray, handle, setups, ingests, iruns, oids, base>>

\* sObject = json.dumps(obj); vectorArray = generate_embeddings(sObject); an
\* exception of the request ends the cell
IngestEmbed ==
    /\ notebook = "ingest"
    /\ mpc = "embed"
    /\ sObject' = Dumps(obj)
    /\ \/ /\ vectorArray' = Embedding(sObject')
          /\ mpc' = "insert"
          /\ last' = last
       \/ /\ mpc' = "idle"
          /\ last' = "ingest_raised"
          /\ UNCHANGED vectorArray
    /\ UNCHANGED <<notebook, loopVars, chatVars, loadVars, mdb, objects, pos, obj,
                   handle, setups, ingests, iruns, oids, base, mprinted>>

\* the loop body, had it inserted the object before adding the embedding to it
IngestInsertBeforeVector ==
    /\ notebook = "ingest"
    /\ mpc = "insert"
    /\ mdb' = insert_one(mdb, "products", obj, oids)
    /\ obj' = DictSet(DictSet(obj, "_id", ObjectId(oids)), "contentVector", vectorArray)
    /\ oids' = oids + 1
    /\ pos' = pos + 1
    /\ mpc' = "next"
    /\ UNCHANGED <<notebook, loopVars, chatVars, loadVars, objects, sObject, vectorArray,
                   handle, setups, ingests, iruns, last, base, mprinted>>

\* obj["contentVector"] = vectorArray; products_collection.insert_one(obj); an
\* exception of the insert ends the cell
IngestInsert ==
    /\ notebook = "ingest"
    /\ mpc = "insert"
    /\ LET withVector == DictSet(obj, "contentVector", vectorArray)
       IN  \/ /\ mdb' = insert_one(mdb, "products", withVector, oids)
              /\ obj' = DictSet(withVector, "_id", ObjectId(oids))
              /\ oids' = oids + 1
              /\ pos' = pos + 1
              /\ mpc' = "next"
              /\ last' = last
           \/ /\ obj' = withVector
              /\ mpc' = "idle"
              /\ last' = "ingest_raised"
              /\ UNCHANGED <<mdb, oids, pos>>
    /\ UNCHANGED <<notebook, loopVars, chatVars, loadVars, objects, sObject, vectorArray,
                   handle, setups, ingests, iruns, base, mprinted>>

NextIngest ==
    \/ CellSetup
    \/ SetupProducts
    \/ SetupCache
    \/ CellIngest
    \/ IngestNext
    \/ IngestEmbed
    \/ IngestInsert

SpecIngest == InitIngest /\ [][NextIngest]_vars

(***************************************************************************)
(* Properties of the MongoDB loading notebook.                             *)
(***************************************************************************)
NotId(pair) == pair[1] # "_id"

\* a stored document without the _id the driver gave it
WithoutId(d) == SelectSeq(d, NotId)

\* the document the loop is to store for a source object
Stored(o) == Append(o, <<"contentVector", Embedding(Dumps(o))>>)

\* a collection as create_collection_and_vector_index leaves it in a new database
FreshCollection == [exists |-> TRUE, indexes |-> {VectorSearchIndex}, docs |-> <<>>]

\* C17: when the set-up cell has completed, whatever the server held before, the
\* database has exactly the item collection and the cache collection, each with
\* the index VectorSearchIndex on contentVector and without documents; and when the
\* first ingestion after a completed set-up has completed, the first time or again,
\* the item collection holds, apart from the _id drawn for each insert, the same
\* documents: one per source object, in source order.
C17_SetupResetsDatabase ==
    notebook = "ingest" =>
        /\ last = "setup" =>
              \A c \in CollNames :
                  mdb[c] = IF c \in {"products", "cache"} THEN FreshCollection
                           ELSE NoCollection
        /\ (last = "ingest" /\ ingests = 1) =>
              /\ [i \in DOMAIN mdb["products"].docs |->
                     WithoutId(mdb["products"].docs[i])]
                 = [i \in DOMAIN objects |-> Stored(objects[i])]
              /\ mdb["cache"].docs = <<>>
              /\ ~mdb["other"].exists

\* set-up followed by ingestion has run twice
C17_Witness ==
    /\ setups = 2
    /\ iruns = 2
    /\ ingests = 1
    /\ last = "ingest"
    /\ Len(objects) = MaxObjects
    /\ Len(mdb["products"].docs) = MaxObjects

\* C18: while and after the ingestion loop runs, the documents it has added to the
\* item collection are, in source order, one per source object it has got through:
\* each is the object with all its fields, plus contentVector, the embedding of the
\* JSON text of the object as it was before the vector was added, plus the _id of
\* the insert, and no two documents have the same _id.  When the embedding request
\* or the insert of an object has raised, the documents of the objects before it are
\* stored and none of that object or of a later one; the end message is printed
\* only when every object has been stored.
C18_EveryDocumentHasItsVector ==
    (notebook = "ingest" /\ last \in {"ingest_running", "ingest", "ingest_raised"}) =>
        LET docs == mdb["products"].docs
        IN  /\ Len(docs) = base + pos - 1
            /\ \A i \in 1..(pos - 1) :
                  /\ WithoutId(docs[base + i]) = Stored(objects[i])
                  /\ \E j \in DOMAIN docs[base + i] :
                        /\ docs[base + i][j][1] = "contentVector"
                        /\ docs[base + i][j][2] = Embedding(Dumps(objects[i]))
            /\ \A i, j \in DOMAIN docs :
                  i # j => SelectSeq(docs[i], NotId) # docs[i]
                           /\ docs[i][Len(docs[i])] # docs[j][Len(docs[j])]
            /\ (last = "ingest") = (mprinted # <<>>)
            /\ last = "ingest" => pos = Len(objects) + 1

\* the embedding request of the second object has raised: the first is stored
C18_Witness ==
    /\ last = "ingest_raised"
    /\ mpc = "idle"
    /\ pos = 2
    /\ sObject = Dumps(objects[2])
    /\ vectorArray = Embedding(Dumps(objects[1]))
    /\ Len(mdb["products"].docs) = base + 1

(***************************************************************************)
(* Properties of the MovieLens loading notebook.                           *)
(***************************************************************************)
\* what holds of a call of generate_embeddings at every moment
RetryState ==
    /\ Len(outcomes) <= 20
    /\ \A k \in 1..(Len(outcomes) - 1) : ~outcomes[k].ok
    /\ rpc = "attempt" => Len(outcomes) = attempt - 1
    /\ rpc = "wait" => Len(outcomes) = attempt /\ ~outcomes[attempt].ok
    /\ rpc = "returned" =>
          /\ outcomes # <<>>
          /\ outcomes[Len(outcomes)].ok
          /\ result = outcomes[Len(outcomes)].embedding
    /\ rpc = "raised" =>
          /\ Len(outcomes) = 20
          /\ \A k \in 1..20 : ~outcomes[k].ok

\* C9: a call of generate_embeddings makes at most 20 embedding requests; no
\* request follows one that succeeded, and the call returns the embedding of that
\* request; it raises only after 20 requests that all failed; and every call ends,
\* by returning or by raising.
C9_RetryAtMostTwenty ==
    /\ [](notebook = "load" => RetryState)
    /\ (rpc \in {"attempt", "wait"}) ~> (rpc \in {"returned", "raised"})

\* twenty requests failed and the call raised
C9_Witness == rpc = "raised" /\ Len(outcomes) = 20 /\ attempt = 20

\* C10: at most one upsert_item request is unanswered at any moment; the requests
\* are sent in the order of data, each one only after the one before it was
\* answered; and "Upsert completed!" is printed only when every object of data has
\* been upserted and is in the container.
C10_UpsertsOneAtATime ==
    notebook = "load" =>
        /\ Cardinality(inflight) <= 1
        /\ started = [k \in 1..Len(started) |-> k]
        /\ Len(upserted) <= Len(started)
        /\ upserted = SubSeq(started, 1, Len(upserted))
        /\ inflight # {} =>
              /\ inflight = {Len(started)}
              /\ Len(upserted) = Len(started) - 1
              /\ ipc = "await"
        /\ (\E k \in DOMAIN printed : printed[k] = "Upsert completed!") =>
              /\ inflight = {}
              /\ Len(upserted) = Len(data)
              /\ \A k \in DOMAIN data : data[k] \in container

\* a run of insert_data over a container that held an older item has completed
C10_Witness ==
    /\ ipc = "done"
    /\ printed = <<"Upsert completed!">>
    /\ upserted = <<1, 2, 3>>
    /\ StaleMovie \notin container
    /\ runs = 1

\* C16: the container never holds two items of the same id, and after any completed
\* run of insert_data, the first or a later one, over an empty container or over one
\* that held an older item under an id of the data, it holds exactly the objects of
\* data: the older item has been replaced and a second run changes nothing.
C16_UpsertIsIdempotent ==
    notebook = "load" =>
        /\ \A x, y \in container : x.id = y.id => x = y
        /\ ipc = "done" => container = Range(data)

\* a second run of insert_data has completed over the items of the first, which
\* had replaced an older item
C16_Witness ==
    /\ ipc = "done"
    /\ runs = 2
    /\ Cardinality(container) = MaxData
    /\ StaleMovie \notin container
    /\ policies["data"].vectorIndexes = {}

\* C19: once the container-creation cell has completed, the data container and the
\* cache container both exist with a vector embedding policy and a vector index on
\* the vector property.
C19_BothContainersIndexed ==
    (notebook = "load" /\ cpc = "done") =>
        \A c \in {"data", "cache"} :
            /\ policies[c].exists
            /\ VectorPath \in policies[c].vectorEmbeddings
            /\ VectorPath \in policies[c].vectorIndexes

====
